---- MODULE Spec2Model ----
(***************************************************************************)
(* Model of BowlingGame (bowling_game.py): one game object whose only      *)
(* field is the list `rolls`, with the operations roll(pins), score() and  *)
(* is_finished().  Python list indices are 0-based; At(rs, i) reads        *)
(* rs[i] the way the code does.  op, arg and outcome record the last call: *)
(* its name, its argument tuple and what it returned or raised.            *)
(***************************************************************************)
EXTENDS Integers, Sequences, FiniteSets, TLC

VARIABLES rolls, op, arg, outcome

vars == <<rolls, op, arg, outcome>>

\* ---------------------------------------------------------------- constants

\* range(10) in score(): the number of frames scored
NumFrames == 10
\* range(9) in is_finished(): the frames walked before the 10th
FirstFrames == 9
\* the pin count compared against in roll(), _is_strike, _is_spare, is_finished
AllPins == 10

\* ---------------------------------------------------------------- bounds

\* The pin counts the bowler may pass to roll(): both out-of-range sides,
\* a gutter, a half rack (5 + 5 and 0 + 10 are spares, 0 + 5 an open frame,
\* 5 + 10 overshoots a frame) and a strike.
PinInputs == {-1, 0, 5, 10, 11}

\* At most this many times does a recorded roll differ from the roll
\* recorded before it.
MaxChanges == 2

\* ---------------------------------------------------------------- outcomes

\* raise ValueError("Pins must be between 0 and 10")
InvalidRollValue == "ValueError: Pins must be between 0 and 10"
\* raise ValueError("Game already finished")
GameAlreadyComplete == "ValueError: Game already finished"
\* list index out of range
IndexError == "IndexError: list index out of range"

\* What a call gave back: the exception raised, or "none" and the value
\* returned.  An int is returned as itself, a bool as the int it is in
\* Python (True == 1, False == 0), None as kind "None".
Returned(v) == [exc |-> "none", kind |-> "int", ret |-> v]
ReturnedBool(b) == [exc |-> "none", kind |-> "bool", ret |-> IF b THEN 1 ELSE 0]
ReturnedNone == [exc |-> "none", kind |-> "None", ret |-> 0]
Raised(e) == [exc |-> e, kind |-> "raise", ret |-> 0]

\* ---------------------------------------------------------------- helpers

\* rs[i] of a Python list (0-based), for an index the caller knows in range
At(rs, i) == rs[i + 1]

\* sum(rs[lo:hi]): a slice is clipped to the list, it never raises
RECURSIVE SliceSum(_, _, _)
SliceSum(rs, lo, hi) ==
  IF lo >= hi \/ lo >= Len(rs) THEN 0
  ELSE At(rs, lo) + SliceSum(rs, lo + 1, hi)

_is_strike(rs, roll_index) ==
  roll_index < Len(rs) /\ At(rs, roll_index) = AllPins

_is_spare(rs, roll_index) ==
  /\ roll_index + 1 < Len(rs)
  /\ At(rs, roll_index) + At(rs, roll_index + 1) = AllPins

\* the strike bonus cut to one roll: rolls[roll_index + 1 : roll_index + 2]
_strike_bonus_OneRoll(rs, roll_index) ==
  SliceSum(rs, roll_index + 1, roll_index + 2)

_strike_bonus(rs, roll_index) == SliceSum(rs, roll_index + 1, roll_index + 3)

_spare_bonus(rs, roll_index) ==
  IF roll_index + 2 < Len(rs) THEN At(rs, roll_index + 2) ELSE 0

\* ---------------------------------------------------------------- is_finished

\* The loop with the strike test left out: every frame takes two rolls
RECURSIVE FirstNine_NoStrike(_, _, _)
FirstNine_NoStrike(rs, left, roll_index) ==
  IF left = 0 THEN roll_index
  ELSE IF roll_index >= Len(rs) THEN -1
  ELSE FirstNine_NoStrike(rs, left - 1, roll_index + 2)

\* The loop over the first 9 frames: `left` frames still to walk from
\* roll_index.  -1 stands for the loop's early `return False`.
RECURSIVE FirstNine(_, _, _)
FirstNine(rs, left, roll_index) ==
  IF left = 0 THEN roll_index
  ELSE IF roll_index >= Len(rs) THEN -1
  ELSE IF At(rs, roll_index) = AllPins
       THEN FirstNine(rs, left - 1, roll_index + 1)
       ELSE FirstNine(rs, left - 1, roll_index + 2)

\* The 10th-frame part with the spare branch left out
TenthFrame_NoSpare(rs, roll_index) ==
  IF Len(rs) <= roll_index THEN FALSE
  ELSE IF At(rs, roll_index) = AllPins THEN Len(rs) >= roll_index + 3
  ELSE Len(rs) > roll_index + 1

\* The 10th-frame part that waits for a third roll also in an open frame
TenthFrame_AlwaysThree(rs, roll_index) ==
  IF Len(rs) <= roll_index THEN FALSE
  ELSE Len(rs) >= roll_index + 3

\* The 10th-frame part of is_finished, from the index the loop ended at
TenthFrame(rs, roll_index) ==
  IF Len(rs) <= roll_index THEN FALSE
  ELSE LET first == At(rs, roll_index)
           hasSecond == Len(rs) > roll_index + 1
       IN  IF first = AllPins THEN Len(rs) >= roll_index + 3
           ELSE IF hasSecond /\ first + At(rs, roll_index + 1) = AllPins
                THEN Len(rs) >= roll_index + 3
                ELSE hasSecond

is_finished(rs) ==
  LET roll_index == FirstNine(rs, FirstFrames, 0)
  IN  IF roll_index = -1 THEN FALSE ELSE TenthFrame(rs, roll_index)

\* ---------------------------------------------------------------- score

\* The loop of score(): `left` frames still to score, from roll_index with
\* `result` accumulated.  The open-frame branch indexes the list directly
\* and raises IndexError when either index is past the end.
RECURSIVE ScoreLoop(_, _, _, _)
ScoreLoop(rs, left, roll_index, result) ==
  IF left = 0 THEN Returned(result)
  ELSE IF _is_strike(rs, roll_index)
       THEN ScoreLoop(rs, left - 1, roll_index + 1,
                      result + 10 + _strike_bonus(rs, roll_index))
  ELSE IF _is_spare(rs, roll_index)
       THEN ScoreLoop(rs, left - 1, roll_index + 2,
                      result + 10 + _spare_bonus(rs, roll_index))
  ELSE IF roll_index + 1 >= Len(rs) THEN Raised(IndexError)
  ELSE ScoreLoop(rs, left - 1, roll_index + 2,
                 result + At(rs, roll_index) + At(rs, roll_index + 1))

\* the frame loop one short: `for frame in range(9)`
score_NineFrames(rs) == ScoreLoop(rs, 9, 0, 0)

score(rs) == ScoreLoop(rs, NumFrames, 0, 0)

\* The cursor of score()'s loop after `frames` frames from roll_index: a
\* strike advances it by 1, a spare or an open frame by 2.  -1 stands for the
\* loop ended by the IndexError of the open-frame branch.
RECURSIVE ScoreCursor(_, _, _)
ScoreCursor(rs, frames, roll_index) ==
  IF frames = 0 THEN roll_index
  ELSE IF _is_strike(rs, roll_index)
       THEN ScoreCursor(rs, frames - 1, roll_index + 1)
  ELSE IF _is_spare(rs, roll_index)
       THEN ScoreCursor(rs, frames - 1, roll_index + 2)
  ELSE IF roll_index + 1 >= Len(rs) THEN -1
  ELSE ScoreCursor(rs, frames - 1, roll_index + 2)

\* Whether score()'s loop, over `left` frames from roll_index, fills in a
\* bonus roll that is not recorded: the slice of _strike_bonus is clipped
\* short of two rolls, or _spare_bonus takes its `else 0`.
RECURSIVE ScoreShort(_, _, _)
ScoreShort(rs, left, roll_index) ==
  IF left = 0 THEN FALSE
  ELSE IF _is_strike(rs, roll_index)
       THEN roll_index + 2 >= Len(rs) \/ ScoreShort(rs, left - 1, roll_index + 1)
  ELSE IF _is_spare(rs, roll_index)
       THEN roll_index + 2 >= Len(rs) \/ ScoreShort(rs, left - 1, roll_index + 2)
  ELSE IF roll_index + 1 >= Len(rs) THEN FALSE
  ELSE ScoreShort(rs, left - 1, roll_index + 2)

\* ---------------------------------------------------------------- roll

\* Variants of roll(), each with one slip in it.

\* the range check forgets the lower side: `if pins > 10`
roll_NoLowerBound(rs, pins) ==
  IF pins > 10
  THEN [rolls |-> rs, out |-> Raised(InvalidRollValue)]
  ELSE IF is_finished(rs)
  THEN [rolls |-> rs, out |-> Raised(GameAlreadyComplete)]
  ELSE [rolls |-> Append(rs, pins), out |-> ReturnedNone]

\* the range check forgets the upper side: `if pins < 0`
roll_NoUpperBound(rs, pins) ==
  IF pins < 0
  THEN [rolls |-> rs, out |-> Raised(InvalidRollValue)]
  ELSE IF is_finished(rs)
  THEN [rolls |-> rs, out |-> Raised(GameAlreadyComplete)]
  ELSE [rolls |-> Append(rs, pins), out |-> ReturnedNone]

\* a finished game ignores the roll instead of raising: `return`
roll_SilentWhenFinished(rs, pins) ==
  IF pins < 0 \/ pins > 10
  THEN [rolls |-> rs, out |-> Raised(InvalidRollValue)]
  ELSE IF is_finished(rs)
  THEN [rolls |-> rs, out |-> ReturnedNone]
  ELSE [rolls |-> Append(rs, pins), out |-> ReturnedNone]

\* the two checks in the other order
roll_FinishedFirst(rs, pins) ==
  IF is_finished(rs)
  THEN [rolls |-> rs, out |-> Raised(GameAlreadyComplete)]
  ELSE IF pins < 0 \/ pins > 10
  THEN [rolls |-> rs, out |-> Raised(InvalidRollValue)]
  ELSE [rolls |-> Append(rs, pins), out |-> ReturnedNone]

\* `self.rolls.insert(0, pins)` in place of append
roll_Prepend(rs, pins) ==
  IF pins < 0 \/ pins > 10
  THEN [rolls |-> rs, out |-> Raised(InvalidRollValue)]
  ELSE IF is_finished(rs)
  THEN [rolls |-> rs, out |-> Raised(GameAlreadyComplete)]
  ELSE [rolls |-> <<pins>> \o rs, out |-> ReturnedNone]

\* the end of the game judged by the roll count: `if len(self.rolls) >= 21`
roll_CountCheck(rs, pins) ==
  IF pins < 0 \/ pins > 10
  THEN [rolls |-> rs, out |-> Raised(InvalidRollValue)]
  ELSE IF Len(rs) >= 21
  THEN [rolls |-> rs, out |-> Raised(GameAlreadyComplete)]
  ELSE [rolls |-> Append(rs, pins), out |-> ReturnedNone]

\* the finished check left out
roll_NoFinishedCheck(rs, pins) ==
  IF pins < 0 \/ pins > 10
  THEN [rolls |-> rs, out |-> Raised(InvalidRollValue)]
  ELSE [rolls |-> Append(rs, pins), out |-> ReturnedNone]

\* the range check written with a truth test: `if not pins or pins > 10`
roll_ZeroRejected(rs, pins) ==
  IF pins <= 0 \/ pins > 10
  THEN [rolls |-> rs, out |-> Raised(InvalidRollValue)]
  ELSE IF is_finished(rs)
  THEN [rolls |-> rs, out |-> Raised(GameAlreadyComplete)]
  ELSE [rolls |-> Append(rs, pins), out |-> ReturnedNone]

\* roll(pins): the list afterwards and what the call returned or raised
roll(rs, pins) ==
  IF pins < 0 \/ pins > 10
  THEN [rolls |-> rs, out |-> Raised(InvalidRollValue)]
  ELSE IF is_finished(rs)
  THEN [rolls |-> rs, out |-> Raised(GameAlreadyComplete)]
  ELSE [rolls |-> Append(rs, pins), out |-> ReturnedNone]

\* ---------------------------------------------------------------- machine

Changes(rs) == Cardinality({k \in 1..(Len(rs) - 1) : rs[k] # rs[k + 1]})

Init ==
  /\ rolls = <<>>
  /\ op = "init"
  /\ arg = <<>>
  /\ outcome = ReturnedNone

Roll(pins) ==
  LET r == roll(rolls, pins)
  IN  /\ Changes(r.rolls) <= MaxChanges
      /\ rolls' = r.rolls
      /\ op' = "roll"
      /\ arg' = <<pins>>
      /\ outcome' = r.out

\* score() that consumes the list while it walks it (`self.rolls.pop(0)`)
Score_Consuming ==
  /\ rolls' = <<>>
  /\ op' = "score"
  /\ arg' = <<>>
  /\ outcome' = score(rolls)

Score ==
  /\ rolls' = rolls
  /\ op' = "score"
  /\ arg' = <<>>
  /\ outcome' = score(rolls)

IsFinished ==
  /\ rolls' = rolls
  /\ op' = "is_finished"
  /\ arg' = <<>>
  /\ outcome' = ReturnedBool(is_finished(rolls))

Next ==
  \/ \E pins \in PinInputs : Roll(pins)
  \/ Score
  \/ IsFinished

Spec == Init /\ [][Next]_vars

\* The machine under a caller that keeps recording rolls.  Its games are
\* bounded more tightly than those of Spec:
\* at most this many times does a recorded roll differ from the one before.
MaxFairChanges == 1

FairRoll(pins) ==
  /\ Changes(IF roll(rolls, pins).out = ReturnedNone
             THEN Append(rolls, pins) ELSE rolls) <= MaxFairChanges
  /\ Roll(pins)

FairNext ==
  \/ \E pins \in PinInputs : FairRoll(pins)
  \/ Score
  \/ IsFinished

\* For as long as a call of roll() can be made that roll() accepts, one is
\* made.  An accepted call is a FairRoll(pins) step that returns None; it
\* appends pins (line 32).
RollInRange ==
  \E pins \in PinInputs :
    /\ roll(rolls, pins).out = ReturnedNone
    /\ Changes(Append(rolls, pins)) <= MaxFairChanges
    /\ rolls' = Append(rolls, pins)

FairSpec == Init /\ [][FairNext]_vars /\ WF_rolls(RollInRange)

\* ---------------------------------------------------------------- reading aids

\* The game is complete / the call on record was roll(pins) with pins out of range
Complete == is_finished(rolls)
OutOfRange(pins) == pins < 0 \/ pins > 10

\* rs[1..k], the first k recorded rolls
Prefix(rs, k) == SubSeq(rs, 1, k)

IsPrefix(a, b) == Len(a) <= Len(b) /\ Prefix(b, Len(a)) = a

RECURSIVE SumAll(_)
SumAll(rs) == IF rs = <<>> THEN 0 ELSE Head(rs) + SumAll(Tail(rs))

\* Index (0-based) of the first roll of frame f, 1 <= f <= 10, by the rule of
\* the game: a strike frame is one roll long, any other frame two.
FrameStart(rs, f) == FirstNine(rs, f - 1, 0)

\* Frame f of a complete game is a strike / a spare
StrikeFrame(rs, f) == At(rs, FrameStart(rs, f)) = 10
SpareFrame(rs, f) ==
  /\ ~StrikeFrame(rs, f)
  /\ At(rs, FrameStart(rs, f)) + At(rs, FrameStart(rs, f) + 1) = 10

\* The bonus the rules give frame f (1..9) of a complete game: the next two
\* recorded rolls after a strike, the next one after a spare.
FrameBonus(rs, f) ==
  LET i == FrameStart(rs, f)
  IN  IF StrikeFrame(rs, f) THEN At(rs, i + 1) + At(rs, i + 2)
      ELSE IF SpareFrame(rs, f) THEN At(rs, i + 2)
      ELSE 0

RECURSIVE BonusUpTo(_, _)
BonusUpTo(rs, f) ==
  IF f = 0 THEN 0 ELSE FrameBonus(rs, f) + BonusUpTo(rs, f - 1)

\* The score the rules give a complete game
RuleScore(rs) == SumAll(rs) + BonusUpTo(rs, 9)

\* ---------------------------------------------------------------- claims

\* C1: score() called while is_finished() is false always fails and returns
\* no score.  (The code has no IncompleteGameScoring kind; any exception is
\* counted as the failure here.)  The code returns a partial score for some
\* incomplete games, e.g. ten strikes.
C1_ScoreFailsOnIncomplete ==
  (op = "score" /\ ~Complete) => outcome.exc # "none"

\* C2: roll(pins) with pins < 0 or pins > 10 raises the pins-range error from
\* every state and leaves rolls as it was.
C2_InvalidRollValue ==
  [][(op' = "roll" /\ OutOfRange(arg'[1]))
       => (outcome' = Raised(InvalidRollValue) /\ rolls' = rolls)]_vars

C2_Witness ==
  /\ op = "roll" /\ arg = <<-1>> /\ outcome = Raised(InvalidRollValue)
  /\ rolls # <<>> /\ ~Complete

\* C3: roll(pins) with 0 <= pins <= 10 on a complete game raises the
\* game-already-finished error and leaves rolls as it was, after every
\* complete game.
C3_GameAlreadyComplete ==
  [][(op' = "roll" /\ ~OutOfRange(arg'[1]) /\ Complete)
       => (outcome' = Raised(GameAlreadyComplete) /\ rolls' = rolls)]_vars

\* a rejected roll on a complete game of twenty rolls (no twelve strikes)
C3_Witness ==
  /\ op = "roll" /\ arg[1] \in 0..10 /\ outcome = Raised(GameAlreadyComplete)
  /\ Complete /\ Len(rolls) = 20

\* C4: an out-of-range pins value on a complete game reports the pins-range
\* error, never the game-already-finished error.
C4_RangeCheckFirst ==
  [][(op' = "roll" /\ OutOfRange(arg'[1]) /\ Complete)
       => (outcome'.exc = InvalidRollValue
           /\ outcome'.exc # GameAlreadyComplete)]_vars

C4_Witness ==
  /\ op = "roll" /\ arg = <<11>> /\ Complete
  /\ outcome.exc = InvalidRollValue

\* C5: roll(pins) succeeds whenever 0 <= pins <= 10 and the game is not
\* complete, also when the frame's two rolls then sum above 10; on success
\* the new rolls is the old rolls with pins appended; across every step the
\* old rolls is a prefix of the new rolls.
C5_AppendOnly ==
  /\ [](~Complete =>
          \A pins \in 0..10 :
            roll(rolls, pins) =
              [rolls |-> Append(rolls, pins), out |-> ReturnedNone])
  /\ [][/\ (op' = "roll" /\ ~OutOfRange(arg'[1]) /\ ~Complete)
            => (outcome' = ReturnedNone /\ rolls' = Append(rolls, arg'[1]))
        /\ IsPrefix(rolls, rolls')]_vars

\* a first frame of two accepted rolls that sum above 10
C5_Witness ==
  /\ op = "roll" /\ outcome = ReturnedNone
  /\ Len(rolls) = 2 /\ rolls[1] # 10 /\ rolls[1] + rolls[2] > 10

\* C6: for every complete game, score() is the sum of all recorded rolls plus,
\* for each strike in frames 1-9, the next two recorded rolls and, for each
\* spare in frames 1-9, the next recorded roll; the tenth frame adds only its
\* own rolls.
C6_ScoreByRules ==
  Complete =>
    /\ score(rolls) = Returned(RuleScore(rolls))
    /\ op = "score" => outcome = Returned(RuleScore(rolls))

\* a scored complete game with a strike in frame 9 (its bonus is tenth-frame
\* rolls) and a spare earlier
C6_Witness ==
  /\ op = "score" /\ Complete /\ outcome.exc = "none"
  /\ StrikeFrame(rolls, 9)
  /\ \E f \in 1..8 : SpareFrame(rolls, f)
  /\ outcome.ret > SumAll(rolls)

\* C7: no reachable roll sequence has a proper prefix that is complete: the
\* game is not complete after any proper prefix of the recorded rolls.
C7_NoCompletePrefix ==
  \A k \in 0..(Len(rolls) - 1) : ~is_finished(Prefix(rolls, k))

\* the roll that completed a game of 21 rolls
C7_Witness ==
  /\ Complete /\ op = "roll" /\ outcome = ReturnedNone
  /\ Len(rolls) = 21

\* C8: with nine frames resolved and n rolls in the tenth frame: an open tenth
\* frame has at most two rolls, is complete exactly with two, and then every
\* further roll is rejected; a tenth-frame strike or spare has at most three
\* rolls and is complete exactly with three.
C8_TenthFrameRolls ==
  LET i == FirstNine(rolls, 9, 0)
      n == Len(rolls) - i
      first == At(rolls, i)
      mark == first = 10 \/ (n >= 2 /\ first + At(rolls, i + 1) = 10)
  IN  (i # -1 /\ n >= 1) =>
        IF mark
        THEN n <= 3 /\ (Complete <=> n = 3)
        ELSE /\ n <= 2
             /\ Complete <=> n = 2
             /\ n = 2 =>
                  \A pins \in 0..10 :
                    roll(rolls, pins) =
                      [rolls |-> rolls, out |-> Raised(GameAlreadyComplete)]

\* the bonus roll of a tenth-frame spare just recorded
C8_Witness ==
  LET i == FirstNine(rolls, 9, 0)
  IN  /\ i # -1 /\ Len(rolls) = i + 3
      /\ At(rolls, i) # 10 /\ At(rolls, i) + At(rolls, i + 1) = 10
      /\ op = "roll" /\ outcome = ReturnedNone /\ Complete

\* C9: once the game is complete, every further call leaves rolls unchanged
\* and the game complete.
C9_CompleteAbsorbing ==
  [][Complete => (rolls' = rolls /\ is_finished(rolls'))]_vars

\* is_finished() answered True on a complete game
C9_Witness ==
  Complete /\ op = "is_finished" /\ outcome = ReturnedBool(TRUE)

\* C10: every element of rolls is an integer in 0..10.
C10_RollsInRange ==
  \A k \in 1..Len(rolls) : rolls[k] \in 0..10

C10_Witness ==
  /\ Len(rolls) >= 12
  /\ \E k \in 1..Len(rolls) : rolls[k] = 10
  /\ \E k \in 1..Len(rolls) : rolls[k] = 0

\* C11: whenever score() returns a value, every strike frame it scored had its
\* two following rolls recorded and every spare frame its one following roll:
\* no returned score counts a missing bonus roll as 0.  The code returns such
\* scores for incomplete games, e.g. 270 for ten strikes.
C11_NoMissingBonusScored ==
  (op = "score" /\ outcome.exc = "none") => ~ScoreShort(rolls, NumFrames, 0)

\* C12: score() and is_finished() are read-only and deterministic: a call of
\* either leaves rolls unchanged, and what a call returned is what the call
\* returns on the rolls as they are after it, so calling again on the same
\* game gives the same value.
C12_QueriesReadOnly ==
  /\ [][op' \in {"score", "is_finished"} => rolls' = rolls]_vars
  /\ [](op = "score" => outcome = score(rolls))
  /\ [](op = "is_finished" => outcome = ReturnedBool(is_finished(rolls)))
  /\ [][(op = "score" /\ op' = "score") => outcome' = outcome]_vars

\* a complete game of twenty rolls, scored
C12_Witness ==
  /\ op = "score" /\ Complete /\ Len(rolls) = 20
  /\ outcome = score(rolls) /\ outcome.exc = "none"

\* C13: on every complete game the walk of score() reads only recorded rolls
\* (it raises nothing and every bonus roll it looks up is recorded), and its
\* cursor after each of the first nine frames is the index the walk of
\* is_finished() has there; after nine frames both stand at the first roll of
\* the tenth frame.
C13_WalksAgree ==
  Complete =>
    /\ score(rolls).exc = "none"
    /\ ~ScoreShort(rolls, NumFrames, 0)
    /\ \A f \in 0..9 : ScoreCursor(rolls, f, 0) = FirstNine(rolls, f, 0)
    /\ ScoreCursor(rolls, 9, 0) < Len(rolls)
    /\ ScoreCursor(rolls, 10, 0) <= Len(rolls)

\* a scored complete game that mixes strike frames and two-roll frames
C13_Witness ==
  /\ op = "score" /\ Complete /\ outcome.exc = "none"
  /\ \E f \in 1..9 : StrikeFrame(rolls, f)
  /\ \E f \in 1..9 : ~StrikeFrame(rolls, f)
  /\ ScoreCursor(rolls, 9, 0) = FirstNine(rolls, 9, 0)

\* C14: rolls never holds more than 21 rolls; a complete game holds between
\* 11 and 21; one of 11 only with nine strikes and then an open tenth frame,
\* one of 21 only with no strike in frames 1-9 and a strike or a spare in the
\* tenth frame.
C14_RollCount ==
  /\ Len(rolls) <= 21
  /\ Complete =>
       /\ Len(rolls) \in 11..21
       /\ Len(rolls) = 11 =>
            /\ \A f \in 1..9 : StrikeFrame(rolls, f)
            /\ ~StrikeFrame(rolls, 10) /\ ~SpareFrame(rolls, 10)
       /\ Len(rolls) = 21 =>
            /\ \A f \in 1..9 : ~StrikeFrame(rolls, f)
            /\ StrikeFrame(rolls, 10) \/ SpareFrame(rolls, 10)

\* the shortest complete game
C14_Witness ==
  Complete /\ Len(rolls) = 11 /\ op = "roll" /\ outcome = ReturnedNone

\* C15: on every complete game score() returns a value between 0 and 300; it
\* returns 300 exactly when rolls is twelve strikes; a complete game with no
\* strike and no spare in any frame has twenty rolls and scores the sum of
\* its rolls.
C15_ScoreRange ==
  Complete =>
    LET s == score(rolls)
    IN  /\ s.exc = "none"
        /\ s.ret >= 0 /\ s.ret <= 300
        /\ s.ret = 300 <=> rolls = [k \in 1..12 |-> 10]
        /\ (\A f \in 1..10 : ~StrikeFrame(rolls, f) /\ ~SpareFrame(rolls, f))
             => (Len(rolls) = 20 /\ s.ret = SumAll(rolls))

\* the perfect game, scored
C15_Witness ==
  op = "score" /\ Complete /\ outcome = Returned(300)

\* C16: the game cannot get stuck in progress: while it is not complete,
\* roll(p) is accepted for every p in 0..10 and appends one roll, a further
\* in-range roll can always be made, rolls never holds more than 21 rolls,
\* and with in-range rolls recorded again and again the game becomes complete.
C16_NotStuck ==
  /\ [](~Complete =>
          /\ \A p \in 0..10 :
               /\ roll(rolls, p).out = ReturnedNone
               /\ roll(rolls, p).rolls = Append(rolls, p)
          /\ ENABLED RollInRange)
  /\ [](Len(rolls) <= 21)
  /\ <>Complete

\* a game brought to completion by an accepted roll
C16_Witness ==
  /\ Complete /\ op = "roll" /\ outcome = ReturnedNone
  /\ Len(rolls) \in 12..20

====
